---- MODULE Spec2Model ----
(***************************************************************************)
(* Server side of one chisel proxy session.                                *)
(*                                                                         *)
(* Two implementations of the session live in the sources and both are     *)
(* modelled; the variable impl says which one serves the connection:       *)
(*   "session"   ProxySSHSession.Run / runWithSSHConn                       *)
(*               (share/server_session.go)                                  *)
(*   "websocket" Server.handleWebsocket and its two handler loops           *)
(*               (server/server.go)                                         *)
(* The peer (the chisel client, or anything that speaks SSH), the clock    *)
(* and the owner of the session's context are the environment.             *)
(***************************************************************************)
EXTENDS Integers, Sequences, FiniteSets, TLC

----------------------------------------------------------------------------
(* Bounds of the model *)

\* longest list of channel descriptors in a config request
MaxRoutes == 2
\* number of control requests the peer sends on the connection
MaxReqs == 2
\* number of channel opens the peer sends on the connection
MaxChans == 2

(* Program constants *)

\* seconds the server waits for the config request
ConfigTimeout == 10

----------------------------------------------------------------------------
(* Data *)

Nil == "nil"
NoReq == 0
SID == "sid1"

Ports == {"9001", "9002"}

\* A route: forward (stub on the client) or reverse (stub on the server),
\* with a TCP skeleton target.
ChannelDescriptors == [Reverse : BOOLEAN, Path : Ports]

\* Textual form of a route, the key of the access check.
ChdString(chd) == (IF chd.Reverse THEN "R:" ELSE "") \o "tcp:" \o chd.Path

\* Decoded config requests: the list of routes.
Configs == UNION {[1..n -> ChannelDescriptors] : n \in 0..MaxRoutes}

\* Payload of a "config" request: bytes that decode to a config, or not.
BadPayload == [ok |-> FALSE, ChannelDescriptors |-> <<>>]
Payloads == {[ok |-> TRUE, ChannelDescriptors |-> c] : c \in Configs}
              \cup {BadPayload}

EmptyPayload == [ok |-> TRUE, ChannelDescriptors |-> <<>>]

\* the payloads a request of type t may carry
PayloadsOf(t) == IF t = "config" THEN Payloads ELSE {EmptyPayload}

\* c.Unmarshal(r.Payload) / DecodeConfig(r.Payload): error or the config
UnmarshalFails(p) == ~p.ok

ReqTypes == {"config", "ping", "exec"}

\* Allow-regexes, by the textual forms they match.
UserAllowAll == ".*"
RegexMatches(re, s) ==
    \/ re = UserAllowAll
    \/ re = "9001$" /\ s \in {"tcp:9001", "R:tcp:9001"}
    \/ re = "^tcp:9002$" /\ s = "tcp:9002"

\* The users of the auth file.
UserRecs ==
    [alice |-> [Name |-> "alice", Pass |-> "secret", Addrs |-> {"9001$"}]]

UserNames == {"alice"}
LoginNames == {"alice", "mallory"}
Passwords == {"secret", "wrong"}

\* user.HasAccess(chdString)
HasAccess(u, s) == \E re \in UserRecs[u].Addrs : RegexMatches(re, s)

\* Extra data of a channel open: undecodable, or an endpoint descriptor.
BadJSON == [ok |-> FALSE, Role |-> "unknown", Type |-> "", Path |-> ""]
Epd(role, type, path) == [ok |-> TRUE, Role |-> role, Type |-> type, Path |-> path]
ExtraData ==
    { BadJSON,
      Epd("skeleton", "tcp", "9001"),
      Epd("skeleton", "tcp", "9002"),
      Epd("stub", "tcp", "9001"),
      Epd("skeleton", "socks", ""),
      Epd("skeleton", "stdio", "") }

----------------------------------------------------------------------------
(* HTTP requests. A header value is the sequence of its tokens; an absent
   header reads as the empty string. *)

\* chshare.ProtocolVersion, and the prefix handleClientHandler tests
ProtocolVersion == <<"xevo", "-", "chisel", "-", "v3">>
ChiselPrefix == <<"xevo", "-", "chisel", "-">>

UpgradeHeaders == {<<"websocket">>, <<"WebSocket">>, <<"WEBSOCKET">>, <<"h2c">>, << >>}

ProtocolHeaders ==
    { ProtocolVersion,
      <<"xevo", "-", "chisel", "-", "v2">>,
      <<"xevo", "-", "chisel", "-", "v3", ".", "1">>,
      <<"Xevo", "-", "chisel", "-", "v3">>,
      ChiselPrefix,
      <<"chisel", "-", "v3">>,
      << >> }

URLs == {"/health", "/version", "/"}

\* strings.ToLower, token by token
LowerToken(t) ==
    CASE t = "WebSocket" -> "websocket"
      [] t = "WEBSOCKET" -> "websocket"
      [] t = "Xevo" -> "xevo"
      [] OTHER -> t
ToLower(str) == [i \in DOMAIN str |-> LowerToken(str[i])]

\* strings.HasPrefix
HasPrefix(str, prefix) ==
    Len(str) >= Len(prefix) /\ SubSeq(str, 1, Len(prefix)) = prefix

\* what the target of the reverse proxy can answer; NoBackend: there is none
NoBackend == [status |-> 0, body |-> ""]
BackendResponses ==
    {[status |-> 200, body |-> "OK\n"], [status |-> 502, body |-> "Bad Gateway"]}

\* the requests a client can send to a server with or without a reverse proxy
\* (proxy: s.reverseProxy != nil; backend: what the proxy target answers to
\* this request); answer "none": not yet served; infos: info-level log lines
\* written while serving it
Requests ==
    {q \in [upgrade : UpgradeHeaders, protocol : ProtocolHeaders, url : URLs,
            proxy : BOOLEAN, backend : BackendResponses \cup {NoBackend},
            answer : {"none"}, infos : {0}] :
        q.proxy = (q.backend # NoBackend)}

\* the request whose upgrade started the session
UpgradedRequest ==
    [upgrade |-> <<"websocket">>, protocol |-> ProtocolVersion, url |-> "/",
     proxy |-> FALSE, backend |-> NoBackend, answer |-> "websocket", infos |-> 0]

\* handleClientHandler upgrading on the prefix alone
ClientHandlerAnswer_AnyVersion(req) ==
    IF ToLower(req.upgrade) = <<"websocket">> /\ HasPrefix(req.protocol, ChiselPrefix)
    THEN "websocket"
    ELSE IF req.proxy THEN "proxy"
    ELSE IF req.url = "/health" THEN "health"
    ELSE IF req.url = "/version" THEN "version"
    ELSE "404"

\* handleClientHandler without the /health case
ClientHandlerAnswer_NoHealth(req) ==
    IF /\ ToLower(req.upgrade) = <<"websocket">>
       /\ HasPrefix(req.protocol, ChiselPrefix)
       /\ req.protocol = ProtocolVersion
    THEN "websocket"
    ELSE IF req.proxy THEN "proxy"
    ELSE IF req.url = "/version" THEN "version"
    ELSE "404"

\* Server.handleClientHandler: what the request is answered with
ClientHandlerAnswer(req) ==
    IF /\ ToLower(req.upgrade) = <<"websocket">>
       /\ HasPrefix(req.protocol, ChiselPrefix)
       /\ req.protocol = ProtocolVersion
    THEN "websocket"
    ELSE IF req.proxy THEN "proxy"
    ELSE IF req.url = "/health" THEN "health"
    ELSE IF req.url = "/version" THEN "version"
    ELSE "404"

\* handleClientHandler never logging a mismatch
ClientHandlerInfos_Silent(req) == 0

\* Server.handleClientHandler: the info-level lines it writes (s.Infof)
ClientHandlerInfos(req) ==
    IF /\ ToLower(req.upgrade) = <<"websocket">>
       /\ HasPrefix(req.protocol, ChiselPrefix)
       /\ req.protocol # ProtocolVersion
    THEN 1
    ELSE 0

\* chshare.BuildVersion
BuildVersion == "0.0.0-src"

\* the HTTP response the client gets for a served request; an upgraded
\* request gets the switch to the WebSocket protocol (101)
Response(req) ==
    CASE req.answer = "health" -> [status |-> 200, body |-> "OK\n"]
      [] req.answer = "version" -> [status |-> 200, body |-> BuildVersion]
      [] req.answer = "404" -> [status |-> 404, body |-> "Not found"]
      [] req.answer = "proxy" -> req.backend
      [] req.answer = "websocket" -> [status |-> 101, body |-> ""]

----------------------------------------------------------------------------
(* State *)

VARIABLES
    impl,             \* which implementation serves the connection
    reverseOk,        \* Server.reverseOk
    socksOk,          \* Server.socksServer != nil
    users,            \* names in Server.users
    sessions,         \* Server.sessions: SSH session id -> user name
    ctxCancelled,     \* the context handed to Run is cancelled: "no", or
                      \* when it was: "serve" (in the serve phase), "early"
    subCtxCancelled,  \* subCtx of runWithSSHConn / ctx of handleWebsocket
    connClosed,       \* the SSH connection is closed (by either side)
    doneClosed,       \* how many times ProxySSHSession.done was closed
    clock,            \* seconds the deadline of the config wait has run; 0 once stopped
    pc,               \* position of Run / handleWebsocket
    user,             \* local user of the config step (Nil: none)
    reqType,          \* types of the control requests sent so far, by id
    qHead,            \* control requests already taken from sshRequests
    r,                \* the request taken by the config step
    payload,          \* r.Payload, while the config step uses it
    routes,           \* c.ChannelDescriptors, while the config step uses it
    idx,              \* index of the stub loop
    stubs,            \* route index -> state of its reverse stub listener
    cfgErr,           \* why the config step failed ("" while it has not)
    reply,            \* request id -> the reply made to it
    wire,             \* replies written to the transport, in order
    hreq,             \* position of handleSSHRequests
    hcur,             \* request handleSSHRequests is replying to
    hch,              \* position of handleSSHChannels ("busy": in the loop body)
    chData,           \* extra data of the channel opens sent so far, by id
    chHead,           \* channel opens already taken from newSSHChannels
    chan,             \* channel id -> state of that channel open
    http,             \* the HTTP request handleClientHandler serves, and its answer
    stubOpens         \* routes whose reverse stub opened a channel toward the client

vars == <<impl, reverseOk, socksOk, users, sessions, ctxCancelled,
          subCtxCancelled, connClosed, doneClosed, clock, pc, user, reqType,
          qHead, r, payload, routes, idx, stubs, cfgErr, reply, wire, hreq, hcur, hch,
          chData, chHead, chan, http, stubOpens>>

\* what the steps of the session leave alone
serverVars == <<impl, reverseOk, socksOk, users, http, stubOpens>>
reqVars == <<reqType, qHead>>
chVars == <<chData, chHead, chan>>
cfgVars == <<r, payload, routes, idx, stubs, cfgErr, user, clock>>

NoReply == [st |-> "none", ok |-> FALSE, msg |-> ""]

Init ==
    /\ impl \in {"session", "websocket"}
    /\ reverseOk \in BOOLEAN
    /\ socksOk \in BOOLEAN
    /\ users \in {{}, UserNames}
    /\ sessions = <<>>
    /\ ctxCancelled = "no"
    /\ subCtxCancelled = FALSE
    /\ connClosed = FALSE
    /\ doneClosed = 0
    /\ clock = 0
    /\ pc = "handshake"
    /\ user = Nil
    /\ reqType = <<>>
    /\ qHead = 0
    /\ r = NoReq
    /\ payload = EmptyPayload
    /\ routes = <<>>
    /\ idx = 0
    /\ stubs = <<>>
    /\ cfgErr = ""
    /\ reply = [i \in {} |-> NoReply]
    /\ wire = <<>>
    /\ hreq = "off"
    /\ hcur = NoReq
    /\ hch = "off"
    /\ chData = <<>>
    /\ chHead = 0
    /\ chan = <<>>
    /\ http = UpgradedRequest
    /\ stubOpens = {}

----------------------------------------------------------------------------
(* The SSH library, as the session uses it *)

IsNew == impl = "session"
IsOld == impl = "websocket"

\* <-sshRequests can deliver: a request is buffered, or the stream is closed
\* (the mux closes it when the connection ends; buffered requests come first)
CanReceive == qHead < Len(reqType) \/ connClosed

\* the value <-sshRequests delivers: the next request, or nil (NoReq)
Received == IF qHead < Len(reqType) THEN qHead + 1 ELSE NoReq

TakeRequest == qHead' = (IF qHead < Len(reqType) THEN qHead + 1 ELSE qHead)

\* r.Reply(ok, payload): writes the reply unless the connection is closed
Reply(id, ok, msg) ==
    IF connClosed
    THEN /\ reply' = (id :> [st |-> "done", ok |-> ok, msg |-> msg, err |-> TRUE]) @@ reply
         /\ UNCHANGED wire
    ELSE /\ reply' = (id :> [st |-> "done", ok |-> ok, msg |-> msg, err |-> FALSE]) @@ reply
         /\ wire' = Append(wire, [id |-> id, ok |-> ok, msg |-> msg])

\* sendSSHReply, first half: start the goroutine that will call r.Reply
sendSSHReply(id, ok, msg) ==
    /\ reply' = (id :> [st |-> "spawned", ok |-> ok, msg |-> msg, err |-> FALSE]) @@ reply
    /\ UNCHANGED wire

\* the goroutine of sendSSHReply: r.Reply, then block on result <- err
ReplyGoroutine(id) ==
    /\ id \in DOMAIN reply
    /\ reply[id].st = "spawned"
    /\ IF connClosed
       THEN /\ reply' = [reply EXCEPT ![id].st = "result", ![id].err = TRUE]
            /\ UNCHANGED wire
       ELSE /\ reply' = [reply EXCEPT ![id].st = "result"]
            /\ wire' = Append(wire, [id |-> id, ok |-> reply[id].ok, msg |-> reply[id].msg])
    /\ UNCHANGED <<serverVars, sessions, ctxCancelled, subCtxCancelled, connClosed,
                   doneClosed, pc, cfgVars, reqVars, hreq, hcur, hch, chVars>>

\* sendSSHReply, second half: err = <-result (the goroutine then ends)
ResultReady(id) == id \in DOMAIN reply /\ reply[id].st = "result"
TakeResult(id) == reply' = [reply EXCEPT ![id].st = "done"]

----------------------------------------------------------------------------
(* Error replies of the config step *)

ErrExpectingConfig(t) ==
    IF IsNew THEN "Expecting \"config\" request, got \"" \o t \o "\""
    ELSE "expecting config request"

ErrInvalidConfig ==
    IF IsNew THEN "Invalid session config request encoding" ELSE "invalid config"

ErrReverseNotEnabled ==
    IF IsNew THEN "Reverse port forwarding not enabled on server"
    ELSE "Reverse port forwaring not enabled on server"

ErrAccessDenied(s) ==
    IF IsNew THEN "Access to \"" \o s \o "\" denied"
    ELSE "access to '" \o s \o "' denied"

ErrStubStart(s) ==
    IF IsNew THEN "Unable to start stub listener " \o s ELSE "listen failed"

ErrUnknownRequest(t) ==
    IF IsNew THEN "Unknown SSH request type: " \o t
    ELSE "Unknown request type: " \o t

\* c.ChannelDescriptors once the request has been decoded (the decoding is
\* not reached for another type, and yields nothing for a bad payload)
Decoded(t, p) ==
    IF t = "config" /\ ~UnmarshalFails(p) THEN p.ChannelDescriptors ELSE <<>>

\* variant: only the first route is checked against the user's allow-regexes
FirstDenied_HeadOnly(u, cds) ==
    IF cds # <<>> /\ ~HasAccess(u, ChdString(cds[1])) THEN 1 ELSE 0

\* index of the first route the user has no access to (0: none)
FirstDenied(u, cds) ==
    LET bad == {i \in 1..Len(cds) : ~HasAccess(u, ChdString(cds[i]))}
    IN IF bad = {} THEN 0 ELSE CHOOSE i \in bad : \A j \in bad : i <= j

\* the checks of the config step in the order of the code; "" when all pass
ConfigError(t, p, u) ==
    IF t # "config" THEN ErrExpectingConfig(t)
    ELSE IF UnmarshalFails(p) THEN ErrInvalidConfig
    ELSE LET cds == p.ChannelDescriptors IN
         IF \E i \in 1..Len(cds) : cds[i].Reverse /\ ~reverseOk
         THEN ErrReverseNotEnabled
         ELSE IF u # Nil /\ FirstDenied(u, cds) # 0
         THEN ErrAccessDenied(ChdString(cds[FirstDenied(u, cds)]))
         ELSE ""

----------------------------------------------------------------------------
(* Handshake: ssh.NewServerConn with the password callback authUser *)

\* Server.authUser comparing the name only
authUserAccepts_NameOnly(name, pass) ==
    \/ users = {}
    \/ name \in users

\* Server.authUser: TRUE when the login is accepted
authUserAccepts(name, pass) ==
    \/ users = {}
    \/ name \in users /\ UserRecs[name].Pass = pass

\* Server.authUser: the session map after the callback
authUserSessions(name, pass) ==
    IF users # {} /\ authUserAccepts(name, pass)
    THEN (SID :> name) @@ sessions
    ELSE sessions

\* ProxySSHSession.Run up to the handshake. lost: the transport fails after
\* the password callback has run.
Run_Handshake(name, pass, lost) ==
    /\ IsNew
    /\ pc = "handshake"
    /\ sessions' = authUserSessions(name, pass)
    /\ IF authUserAccepts(name, pass) /\ ~lost
       THEN /\ pc' = "start"
            /\ UNCHANGED <<connClosed, doneClosed>>
       ELSE /\ pc' = "returned"
            /\ connClosed' = TRUE
            /\ doneClosed' = doneClosed + 1
    /\ UNCHANGED <<serverVars, ctxCancelled, subCtxCancelled, cfgVars, reqVars,
                   reply, wire, hreq, hcur, hch, chVars>>

\* Server.handleWebsocket up to the handshake
WS_Handshake(name, pass, lost) ==
    /\ IsOld
    /\ pc = "handshake"
    /\ sessions' = authUserSessions(name, pass)
    /\ IF authUserAccepts(name, pass) /\ ~lost
       THEN /\ pc' = "start"
            /\ UNCHANGED connClosed
       ELSE /\ pc' = "returned"
            /\ connClosed' = TRUE
    /\ UNCHANGED <<serverVars, ctxCancelled, subCtxCancelled, doneClosed, cfgVars,
                   reqVars, reply, wire, hreq, hcur, hch, chVars>>

\* "pull the users from the session map"
PulledUser == IF users # {} /\ SID \in DOMAIN sessions THEN sessions[SID] ELSE Nil
SessionsAfterPull ==
    IF users # {} THEN [s \in DOMAIN sessions \ {SID} |-> sessions[s]] ELSE sessions

RWS_PullUser ==
    /\ IsNew
    /\ pc = "start"
    /\ user' = PulledUser
    /\ sessions' = SessionsAfterPull
    /\ pc' = "awaitConfig"
    /\ UNCHANGED <<serverVars, ctxCancelled, subCtxCancelled, connClosed, doneClosed,
                   clock, r, payload, routes, idx, stubs, cfgErr, reqVars, reply, wire,
                   hreq, hcur, hch, chVars>>

WS_PullUser ==
    /\ IsOld
    /\ pc = "start"
    /\ user' = PulledUser
    /\ sessions' = SessionsAfterPull
    /\ pc' = "awaitConfig"
    /\ UNCHANGED <<serverVars, ctxCancelled, subCtxCancelled, connClosed, doneClosed,
                   clock, r, payload, routes, idx, stubs, cfgErr, reqVars, reply, wire,
                   hreq, hcur, hch, chVars>>

----------------------------------------------------------------------------
(* Config step of ProxySSHSession.runWithSSHConn *)

\* variant: the wait for the config request has no deadline
RWS_ReceiveRequest_NoDeadline ==
    /\ IsNew
    /\ pc = "awaitConfig"
    /\ CanReceive
    /\ r' = Received
    /\ TakeRequest
    /\ clock' = 0
    /\ pc' = "verify"
    /\ UNCHANGED <<serverVars, sessions, ctxCancelled, subCtxCancelled, connClosed,
                   doneClosed, user, reqType, payload, routes, idx, stubs, cfgErr,
                   reply, wire, hreq, hcur, hch, chVars>>

\* receiveSSHRequest(cfgCtx), case r := <-s.sshRequests
RWS_ReceiveRequest ==
    /\ IsNew
    /\ pc = "awaitConfig"
    /\ CanReceive
    /\ clock < ConfigTimeout
    /\ r' = Received
    /\ TakeRequest
    /\ clock' = 0
    /\ pc' = "verify"
    /\ UNCHANGED <<serverVars, sessions, ctxCancelled, subCtxCancelled, connClosed,
                   doneClosed, user, reqType, payload, routes, idx, stubs, cfgErr,
                   reply, wire, hreq, hcur, hch, chVars>>

\* cfgCtx is done: 10 seconds have passed, or subCtx is cancelled
CfgCtxDone == clock >= ConfigTimeout \/ subCtxCancelled

\* receiveSSHRequest(cfgCtx), case <-ctx.Done(): runWithSSHConn returns the error
RWS_ReceiveTimeout ==
    /\ IsNew
    /\ pc = "awaitConfig"
    /\ CfgCtxDone
    /\ cfgErr' = (IF clock >= ConfigTimeout THEN "timeout" ELSE "cancelled")
    /\ clock' = (IF clock >= ConfigTimeout THEN clock ELSE 0)
    /\ pc' = "return"
    /\ UNCHANGED <<serverVars, sessions, ctxCancelled, subCtxCancelled, connClosed,
                   doneClosed, user, reqVars, r, payload, routes, idx, stubs,
                   reply, wire, hreq, hcur, hch, chVars>>

\* the checks on the received request, up to the stub loop. payload is
\* r.Payload, read here for the first time. A nil request (the stream was
\* closed) is dereferenced by r.Type: the goroutine panics, and the deferred
\* subCtxCancel runs.
RWS_Verify(p) ==
    /\ IsNew
    /\ pc = "verify"
    /\ IF r = NoReq
       THEN /\ pc' = "panic"
            /\ subCtxCancelled' = TRUE
            /\ UNCHANGED <<cfgErr, payload, routes, idx, reply, wire>>
       ELSE LET e == ConfigError(reqType[r], p, user) IN
            /\ p \in PayloadsOf(reqType[r])
            /\ payload' = p
            /\ routes' = Decoded(reqType[r], p)
            /\ IF e # ""
               THEN /\ cfgErr' = e
                    /\ sendSSHReply(r, FALSE, e)
                    /\ pc' = "failWait"
                    /\ UNCHANGED <<idx, subCtxCancelled>>
               ELSE /\ idx' = 1
                    /\ pc' = "stubs"
                    /\ UNCHANGED <<cfgErr, reply, wire, subCtxCancelled>>
    /\ UNCHANGED <<serverVars, sessions, ctxCancelled, connClosed, doneClosed,
                   clock, user, reqVars, r, stubs, hreq, hcur, hch, chVars>>

\* one turn of the loop "set up reverse port forwarding"; started: the result
\* of proxy.Start(subCtx)
RWS_StartStub(started) ==
    /\ IsNew
    /\ pc = "stubs"
    /\ idx <= Len(routes)
    /\ IF ~routes[idx].Reverse
       THEN /\ idx' = idx + 1
            /\ UNCHANGED <<stubs, cfgErr, reply, wire, pc>>
       ELSE IF started
       THEN /\ stubs' = (idx :> "listening") @@ stubs
            /\ idx' = idx + 1
            /\ UNCHANGED <<cfgErr, reply, wire, pc>>
       ELSE /\ cfgErr' = ErrStubStart(ChdString(routes[idx]))
            /\ sendSSHReply(r, FALSE, ErrStubStart(ChdString(routes[idx])))
            /\ pc' = "failWait"
            /\ UNCHANGED <<stubs, idx>>
    /\ UNCHANGED <<serverVars, sessions, ctxCancelled, subCtxCancelled, connClosed,
                   doneClosed, clock, user, reqVars, r, payload, routes, hreq, hcur, hch,
                   chVars>>

\* "success!": sendSSHReply(subCtx, r, true, nil)
RWS_SendSuccess ==
    /\ IsNew
    /\ pc = "stubs"
    /\ idx > Len(routes)
    /\ sendSSHReply(r, TRUE, "")
    /\ pc' = "okWait"
    /\ routes' = <<>>
    /\ payload' = EmptyPayload
    /\ idx' = 0
    /\ UNCHANGED <<serverVars, sessions, ctxCancelled, subCtxCancelled, connClosed,
                   doneClosed, r, stubs, cfgErr, user, clock, reqVars, hreq, hcur,
                   hch, chVars>>

ErrSuccessSend == "Failed to send SSH config success response"

\* sendSSHReply, case err = <-result, for the reply to the config request;
\* after a success reply sent without error the two handlers are started
RWS_ReplyResult ==
    /\ IsNew
    /\ pc \in {"failWait", "okWait"}
    /\ ResultReady(r)
    /\ TakeResult(r)
    /\ IF pc = "failWait"
       THEN /\ pc' = "return"
            /\ UNCHANGED <<cfgErr, hreq, hch>>
       ELSE IF reply[r].err
       THEN /\ cfgErr' = ErrSuccessSend
            /\ pc' = "return"
            /\ UNCHANGED <<hreq, hch>>
       ELSE /\ hreq' = "loop"
            /\ hch' = "loop"
            /\ pc' = "wait"
            /\ UNCHANGED cfgErr
    /\ UNCHANGED <<serverVars, sessions, ctxCancelled, subCtxCancelled, connClosed,
                   doneClosed, clock, user, reqVars, r, payload, routes, idx, stubs, wire,
                   hcur, chVars>>

\* sendSSHReply, case <-ctx.Done(), for the reply to the config request
RWS_ReplyCancelled ==
    /\ IsNew
    /\ pc \in {"failWait", "okWait"}
    /\ subCtxCancelled
    /\ cfgErr' = (IF pc = "okWait" THEN ErrSuccessSend ELSE cfgErr)
    /\ pc' = "return"
    /\ UNCHANGED <<serverVars, sessions, ctxCancelled, subCtxCancelled, connClosed,
                   doneClosed, clock, user, reqVars, r, payload, routes, idx, stubs, reply,
                   wire, hreq, hcur, hch, chVars>>

\* return sshConn.Wait()
RWS_Wait ==
    /\ IsNew
    /\ pc = "wait"
    /\ connClosed
    /\ pc' = "return"
    /\ UNCHANGED <<serverVars, sessions, ctxCancelled, subCtxCancelled, connClosed,
                   doneClosed, cfgVars, reqVars, reply, wire, hreq, hcur, hch, chVars>>

\* runWithSSHConn returns: the deferred subCtxCancel runs
RWS_Return ==
    /\ IsNew
    /\ pc = "return"
    /\ subCtxCancelled' = TRUE
    /\ pc' = "closing"
    /\ UNCHANGED <<serverVars, sessions, ctxCancelled, connClosed,
                   doneClosed, cfgVars, reqVars, reply, wire, hreq, hcur, hch, chVars>>

\* Run: sshConn.Close()
Run_Close ==
    /\ IsNew
    /\ pc = "closing"
    /\ connClosed' = TRUE
    /\ pc' = "closeDone"
    /\ UNCHANGED <<serverVars, sessions, ctxCancelled, subCtxCancelled,
                   doneClosed, cfgVars, reqVars, reply, wire, hreq, hcur, hch, chVars>>

\* Run: close(s.done); return err
Run_CloseDone ==
    /\ IsNew
    /\ pc = "closeDone"
    /\ doneClosed' = doneClosed + 1
    /\ pc' = "returned"
    /\ UNCHANGED <<serverVars, sessions, ctxCancelled, subCtxCancelled, connClosed,
                   cfgVars, reqVars, reply, wire, hreq, hcur, hch, chVars>>

----------------------------------------------------------------------------
(* Config step of Server.handleWebsocket *)

\* select, case r = <-reqs
WS_ReceiveRequest ==
    /\ IsOld
    /\ pc = "awaitConfig"
    /\ CanReceive
    /\ clock < ConfigTimeout
    /\ r' = Received
    /\ TakeRequest
    /\ clock' = 0
    /\ pc' = "verify"
    /\ UNCHANGED <<serverVars, sessions, ctxCancelled, subCtxCancelled, connClosed,
                   doneClosed, user, reqType, payload, routes, idx, stubs, cfgErr,
                   reply, wire, hreq, hcur, hch, chVars>>

\* select, case <-time.After(10 * time.Second): sshConn.Close(); return
WS_Timeout ==
    /\ IsOld
    /\ pc = "awaitConfig"
    /\ clock >= ConfigTimeout
    /\ cfgErr' = "timeout"
    /\ connClosed' = TRUE
    /\ pc' = "returned"
    /\ UNCHANGED <<serverVars, sessions, ctxCancelled, subCtxCancelled,
                   doneClosed, clock, user, reqVars, r, payload, routes, idx, stubs,
                   reply, wire, hreq, hcur, hch, chVars>>

\* the checks on the received request, up to the stub loop; failed(err)
\* replies and handleWebsocket returns
WS_Verify(p) ==
    /\ IsOld
    /\ pc = "verify"
    /\ IF r = NoReq
       THEN /\ pc' = "panic"
            /\ UNCHANGED <<cfgErr, payload, routes, idx, reply, wire>>
       ELSE LET e == ConfigError(reqType[r], p, user) IN
            /\ p \in PayloadsOf(reqType[r])
            /\ payload' = p
            /\ routes' = Decoded(reqType[r], p)
            /\ IF e # ""
               THEN /\ cfgErr' = e
                    /\ Reply(r, FALSE, e)
                    /\ pc' = "returned"
                    /\ UNCHANGED idx
               ELSE /\ idx' = 1
                    /\ pc' = "stubs"
                    /\ UNCHANGED <<cfgErr, reply, wire>>
    /\ UNCHANGED <<serverVars, sessions, ctxCancelled, subCtxCancelled, connClosed,
                   doneClosed, clock, user, reqVars, r, stubs, hreq, hcur, hch,
                   chVars>>

\* one turn of the loop "set up reverse port forwarding"; on failure the
\* deferred cancel runs as handleWebsocket returns
WS_StartStub(started) ==
    /\ IsOld
    /\ pc = "stubs"
    /\ idx <= Len(routes)
    /\ IF ~routes[idx].Reverse
       THEN /\ idx' = idx + 1
            /\ UNCHANGED <<stubs, cfgErr, reply, wire, pc, subCtxCancelled>>
       ELSE IF started
       THEN /\ stubs' = (idx :> "listening") @@ stubs
            /\ idx' = idx + 1
            /\ UNCHANGED <<cfgErr, reply, wire, pc, subCtxCancelled>>
       ELSE /\ cfgErr' = ErrStubStart(ChdString(routes[idx]))
            /\ Reply(r, FALSE, ErrStubStart(ChdString(routes[idx])))
            /\ subCtxCancelled' = TRUE
            /\ pc' = "returned"
            /\ UNCHANGED <<stubs, idx>>
    /\ UNCHANGED <<serverVars, sessions, ctxCancelled, connClosed,
                   doneClosed, clock, user, reqVars, r, payload, routes, hreq, hcur, hch,
                   chVars>>

\* "success!": r.Reply(true, nil), then the two handlers are started
WS_SendSuccess ==
    /\ IsOld
    /\ pc = "stubs"
    /\ idx > Len(routes)
    /\ Reply(r, TRUE, "")
    /\ hreq' = "loop"
    /\ hch' = "loop"
    /\ pc' = "wait"
    /\ routes' = <<>>
    /\ payload' = EmptyPayload
    /\ idx' = 0
    /\ UNCHANGED <<serverVars, sessions, ctxCancelled, subCtxCancelled, connClosed,
                   doneClosed, r, stubs, cfgErr, user, clock, reqVars, hcur, chVars>>

\* sshConn.Wait() returns; handleWebsocket returns and the deferred cancel runs
WS_Wait ==
    /\ IsOld
    /\ pc = "wait"
    /\ connClosed
    /\ subCtxCancelled' = TRUE
    /\ pc' = "returned"
    /\ UNCHANGED <<serverVars, sessions, ctxCancelled, connClosed,
                   doneClosed, cfgVars, reqVars, reply, wire, hreq, hcur, hch, chVars>>

----------------------------------------------------------------------------
(* Control requests of the serve phase *)

\* variant: every request type is answered with success
RequestReplyOk_Always(t) == t \in ReqTypes

\* variant: "config" is accepted again in the serve phase
RequestReplyOk_Reconfig(t) == t \in {"ping", "config"}

\* the switch on req.Type: the ok flag of the reply
RequestReplyOk(t) == t = "ping"

\* the switch on req.Type: the payload of the reply
RequestReplyMsg(t) == IF t = "ping" THEN "" ELSE ErrUnknownRequest(t)

\* ProxySSHSession.handleSSHRequests, case req := <-sshRequests
HSR_Receive ==
    /\ IsNew
    /\ hreq = "loop"
    /\ CanReceive
    /\ TakeRequest
    /\ IF Received = NoReq
       THEN /\ hreq' = "returned"
            /\ UNCHANGED <<hcur, reply, wire>>
       ELSE /\ sendSSHReply(Received, RequestReplyOk(reqType[Received]),
                            RequestReplyMsg(reqType[Received]))
            /\ hcur' = Received
            /\ hreq' = "wait"
    /\ UNCHANGED <<serverVars, sessions, ctxCancelled, subCtxCancelled, connClosed,
                   doneClosed, pc, cfgVars, reqType, hch, chVars>>

\* sendSSHReply in the handler, case err = <-result
HSR_ReplyResult ==
    /\ IsNew
    /\ hreq = "wait"
    /\ ResultReady(hcur)
    /\ TakeResult(hcur)
    /\ hreq' = "loop"
    /\ UNCHANGED <<serverVars, sessions, ctxCancelled, subCtxCancelled, connClosed,
                   doneClosed, pc, cfgVars, reqVars, wire, hcur, hch, chVars>>

\* sendSSHReply in the handler, case <-ctx.Done(): the error is ignored
HSR_ReplyCancelled ==
    /\ IsNew
    /\ hreq = "wait"
    /\ subCtxCancelled
    /\ hreq' = "loop"
    /\ UNCHANGED <<serverVars, sessions, ctxCancelled, subCtxCancelled, connClosed,
                   doneClosed, pc, cfgVars, reqVars, reply, wire, hcur, hch, chVars>>

\* ProxySSHSession.handleSSHRequests, case <-ctx.Done()
HSR_CtxDone ==
    /\ IsNew
    /\ hreq = "loop"
    /\ subCtxCancelled
    /\ hreq' = "returned"
    /\ UNCHANGED <<serverVars, sessions, ctxCancelled, subCtxCancelled, connClosed,
                   doneClosed, pc, cfgVars, reqVars, reply, wire, hcur, hch, chVars>>

\* Server.handleSSHRequests: one turn of "for r := range reqs"
WSR_Next ==
    /\ IsOld
    /\ hreq = "loop"
    /\ CanReceive
    /\ TakeRequest
    /\ IF Received = NoReq
       THEN /\ hreq' = "returned"
            /\ UNCHANGED <<hcur, reply, wire>>
       ELSE /\ Reply(Received, RequestReplyOk(reqType[Received]),
                     RequestReplyMsg(reqType[Received]))
            /\ hcur' = Received
            /\ UNCHANGED hreq
    /\ UNCHANGED <<serverVars, sessions, ctxCancelled, subCtxCancelled, connClosed,
                   doneClosed, pc, cfgVars, reqType, hch, chVars>>

----------------------------------------------------------------------------
(* Inbound channel opens *)

ChCanReceive == chHead < Len(chData) \/ connClosed
ChReceived == IF chHead < Len(chData) THEN chHead + 1 ELSE NoReq
ChTake == chHead' = (IF chHead < Len(chData) THEN chHead + 1 ELSE chHead)

\* NewLocalSkeletonChannelEndpoint fails for this descriptor
SkeletonEndpointError(epd) ==
    \/ epd.Role # "skeleton"
    \/ epd.Type = "stdio"
    \/ epd.Type = "socks" /\ ~socksOk

\* variant: Socks is let through whether or not SOCKS5 is enabled
WSChannelProhibited_SocksOpen(epd) ==
    \/ epd.Role # "skeleton"
    \/ epd.Type = "stdio"
    \/ epd.Type = "loop"
    \/ epd.Type = "unix"

\* the checks of Server.handleSSHChannels on a decoded descriptor
WSChannelProhibited(epd) ==
    \/ epd.Role # "skeleton"
    \/ epd.Type = "stdio"
    \/ epd.Type = "loop"
    \/ epd.Type = "unix"
    \/ epd.Type = "socks" /\ ~socksOk

\* ProxySSHSession.handleSSHChannels, case ch := <-newChannels
HSC_Receive ==
    /\ IsNew
    /\ hch = "loop"
    /\ ChCanReceive
    /\ ChTake
    /\ IF ChReceived = NoReq
       THEN /\ hch' = "returned"
            /\ UNCHANGED chan
       ELSE /\ chan' = (ChReceived :> "handling") @@ chan
            /\ UNCHANGED hch
    /\ UNCHANGED <<serverVars, sessions, ctxCancelled, subCtxCancelled, connClosed,
                   doneClosed, pc, cfgVars, reqVars, reply, wire, hreq, hcur, chData>>

\* ProxySSHSession.handleSSHChannels, case <-ctx.Done()
HSC_CtxDone ==
    /\ IsNew
    /\ hch = "loop"
    /\ subCtxCancelled
    /\ hch' = "returned"
    /\ UNCHANGED <<serverVars, sessions, ctxCancelled, subCtxCancelled, connClosed,
                   doneClosed, pc, cfgVars, reqVars, reply, wire, hreq, hcur, chVars>>

\* the outcome of handleSSHNewChannel up to ch.Accept()
NewChannelOutcome(epd) ==
    IF ~epd.ok THEN "rejUnknown"
    ELSE IF SkeletonEndpointError(epd) THEN "rejProhibited"
    ELSE IF connClosed THEN "acceptErr"
    ELSE "accepted"

\* variant: the checks run after ch.Accept(), so an accepted channel open can
\* still be rejected
HNC_Open_LateChecks(id) ==
    /\ IsNew
    /\ id \in DOMAIN chan
    /\ chan[id] \in {"handling", "accepted"}
    /\ chan' = [chan EXCEPT ![id] =
                   IF chan[id] = "handling" /\ ~connClosed THEN "accepted"
                   ELSE NewChannelOutcome(chData[id])]
    /\ chan'[id] # chan[id]
    /\ UNCHANGED <<serverVars, sessions, ctxCancelled, subCtxCancelled, connClosed,
                   doneClosed, pc, cfgVars, reqVars, reply, wire, hreq, hcur, hch,
                   chData, chHead>>

\* variant: a channel open that is not accepted closes the connection
HNC_Open_Fatal(id) ==
    /\ IsNew
    /\ id \in DOMAIN chan
    /\ chan[id] = "handling"
    /\ chan' = [chan EXCEPT ![id] = NewChannelOutcome(chData[id])]
    /\ connClosed' = (connClosed \/ NewChannelOutcome(chData[id]) # "accepted")
    /\ UNCHANGED <<serverVars, sessions, ctxCancelled, subCtxCancelled,
                   doneClosed, pc, cfgVars, reqVars, reply, wire, hreq, hcur, hch,
                   chData, chHead>>

\* ProxySSHSession.handleSSHNewChannel up to ch.Accept(), on its own goroutine
HNC_Open(id) ==
    /\ IsNew
    /\ id \in DOMAIN chan
    /\ chan[id] = "handling"
    /\ chan' = [chan EXCEPT ![id] = NewChannelOutcome(chData[id])]
    /\ UNCHANGED <<serverVars, sessions, ctxCancelled, subCtxCancelled, connClosed,
                   doneClosed, pc, cfgVars, reqVars, reply, wire, hreq, hcur, hch,
                   chData, chHead>>

\* variant: the extra data is not checked for decoding
WSChannelOutcome_NoDecode(epd) ==
    IF WSChannelProhibited(epd) THEN "rejProhibited"
    ELSE IF connClosed THEN "acceptErr"
    ELSE "accepted"

\* the outcome of one turn of Server.handleSSHChannels
WSChannelOutcome(epd) ==
    IF ~epd.ok THEN "rejUnknown"
    ELSE IF WSChannelProhibited(epd) THEN "rejProhibited"
    ELSE IF connClosed THEN "acceptErr"
    ELSE "accepted"

\* Server.handleSSHChannels: "for ch := range chans" takes the next channel
\* open, or ends with the stream
WSC_Next ==
    /\ IsOld
    /\ hch = "loop"
    /\ ChCanReceive
    /\ ChTake
    /\ IF ChReceived = NoReq
       THEN /\ hch' = "returned"
            /\ UNCHANGED chan
       ELSE /\ chan' = (ChReceived :> "handling") @@ chan
            /\ hch' = "busy"
    /\ UNCHANGED <<serverVars, sessions, ctxCancelled, subCtxCancelled, connClosed,
                   doneClosed, pc, cfgVars, reqVars, reply, wire, hreq, hcur, chData>>

\* Server.handleSSHChannels: the body of the loop, on the goroutine of the
\* loop: the checks, then ch.Reject or ch.Accept, which write to the transport
WSC_Handle ==
    /\ IsOld
    /\ hch = "busy"
    /\ chan' = [chan EXCEPT ![chHead] = WSChannelOutcome(chData[chHead])]
    /\ hch' = "loop"
    /\ UNCHANGED <<serverVars, sessions, ctxCancelled, subCtxCancelled, connClosed,
                   doneClosed, pc, cfgVars, reqVars, reply, wire, hreq, hcur, chData,
                   chHead>>

\* the local dial of an accepted channel (ep.DialAndServe, HandleTCPStream,
\* handleSocksStream): reached: the target answered
ChannelDial(id, reached) ==
    /\ id \in DOMAIN chan
    /\ chan[id] = "accepted"
    /\ chan' = [chan EXCEPT ![id] = IF reached THEN "serving" ELSE "dialFailed"]
    /\ UNCHANGED <<serverVars, sessions, ctxCancelled, subCtxCancelled, connClosed,
                   doneClosed, pc, cfgVars, reqVars, reply, wire, hreq, hcur, hch,
                   chData, chHead>>

\* the copy of a channel ends: end of stream, or the connection is closed
ChannelEnd(id) ==
    /\ id \in DOMAIN chan
    /\ chan[id] = "serving"
    /\ chan' = [chan EXCEPT ![id] = "closed"]
    /\ UNCHANGED <<serverVars, sessions, ctxCancelled, subCtxCancelled, connClosed,
                   doneClosed, pc, cfgVars, reqVars, reply, wire, hreq, hcur, hch,
                   chData, chHead>>

\* a listening reverse stub accepts an external connection and opens a channel
\* toward the client on the connection its getter returns
\* (func() ssh.Conn { return sshConn }: at once, whatever the config step does)
StubAccept(i) ==
    /\ i \in DOMAIN stubs
    /\ stubs[i] = "listening"
    /\ ~connClosed
    /\ i \notin stubOpens
    /\ stubOpens' = stubOpens \cup {i}
    /\ UNCHANGED <<impl, reverseOk, socksOk, users, http, sessions, ctxCancelled,
                   subCtxCancelled, connClosed, doneClosed, pc, cfgVars, reqVars,
                   reply, wire, hreq, hcur, hch, chVars>>

\* a reverse stub listener stops once its context is cancelled
StubStop(i) ==
    /\ i \in DOMAIN stubs
    /\ stubs[i] = "listening"
    /\ subCtxCancelled
    /\ stubs' = [stubs EXCEPT ![i] = "stopped"]
    /\ UNCHANGED <<serverVars, sessions, ctxCancelled, subCtxCancelled, connClosed,
                   doneClosed, pc, clock, user, r, payload, routes, idx, cfgErr, reqVars,
                   reply, wire, hreq, hcur, hch, chVars>>

----------------------------------------------------------------------------
(* Environment *)

\* one second passes while the server waits for the config request. The
\* waiting select is committed to the first event that reaches it, so time
\* does not pass over a request it can take.
Tick ==
    /\ pc = "awaitConfig"
    /\ ~CanReceive
    /\ clock < ConfigTimeout
    /\ clock' = clock + 1
    /\ UNCHANGED <<serverVars, sessions, ctxCancelled, subCtxCancelled, connClosed,
                   doneClosed, pc, user, r, payload, routes, idx, stubs, cfgErr, reqVars,
                   reply, wire, hreq, hcur, hch, chVars>>

\* the peer sends a control request
PeerSend(t) ==
    /\ pc \notin {"handshake", "returned", "panic"}
    /\ ~connClosed
    /\ Len(reqType) < MaxReqs
    /\ reqType' = Append(reqType, t)
    /\ UNCHANGED <<serverVars, sessions, ctxCancelled, subCtxCancelled, connClosed,
                   doneClosed, pc, cfgVars, qHead, reply, wire, hreq, hcur, hch,
                   chVars>>

\* the peer opens a channel
PeerOpenChannel(d) ==
    /\ pc \notin {"handshake", "returned", "panic"}
    /\ ~connClosed
    /\ Len(chData) < MaxChans
    /\ chData' = Append(chData, d)
    /\ UNCHANGED <<serverVars, sessions, ctxCancelled, subCtxCancelled, connClosed,
                   doneClosed, pc, cfgVars, reqVars, reply, wire, hreq, hcur, hch,
                   chHead, chan>>

\* the peer closes the connection, or the transport is lost
PeerClose ==
    /\ pc \notin {"handshake"}
    /\ ~connClosed
    /\ connClosed' = TRUE
    /\ UNCHANGED <<serverVars, sessions, ctxCancelled, subCtxCancelled,
                   doneClosed, pc, cfgVars, reqVars, reply, wire, hreq, hcur, hch,
                   chVars>>

\* the owner of the context handed to Run cancels it; subCtx follows
CtxCancel ==
    /\ IsNew
    /\ pc \notin {"handshake", "returned", "panic"}
    /\ ctxCancelled = "no"
    /\ ctxCancelled' = (IF pc = "wait" THEN "serve" ELSE "early")
    /\ subCtxCancelled' = TRUE
    /\ UNCHANGED <<serverVars, sessions, connClosed,
                   doneClosed, pc, cfgVars, reqVars, reply, wire, hreq, hcur, hch,
                   chVars>>

\* Server.AddUser: the embedding program adds a user
AddUser(name) ==
    /\ name \notin users
    /\ users' = users \cup {name}
    /\ UNCHANGED <<impl, reverseOk, socksOk, sessions, ctxCancelled, subCtxCancelled,
                   connClosed, doneClosed, pc, cfgVars, reqVars, reply, wire, hreq,
                   hcur, hch, chVars, http, stubOpens>>

\* Server.DeleteUser: the embedding program removes a user
DeleteUser(name) ==
    /\ name \in users
    /\ users' = users \ {name}
    /\ UNCHANGED <<impl, reverseOk, socksOk, sessions, ctxCancelled, subCtxCancelled,
                   connClosed, doneClosed, pc, cfgVars, reqVars, reply, wire, hreq,
                   hcur, hch, chVars, http, stubOpens>>

----------------------------------------------------------------------------
(* The HTTP front end *)

sessionVars == <<impl, reverseOk, socksOk, users, sessions, ctxCancelled,
                 subCtxCancelled, connClosed, doneClosed, clock, user, reqType,
                 qHead, r, payload, routes, idx, stubs, cfgErr, reply, wire, hreq,
                 hcur, hch, chData, chHead, chan, stubOpens>>

\* Server.handleClientHandler serves the request
HandleClientHandler ==
    /\ pc = "http"
    /\ http.answer = "none"
    /\ http' = [http EXCEPT !.answer = ClientHandlerAnswer(http),
                            !.infos = ClientHandlerInfos(http)]
    /\ pc' = IF ClientHandlerAnswer(http) = "websocket" THEN "upgrade" ELSE "http"
    /\ UNCHANGED sessionVars

\* Server.handleWebsocket: upgrader.Upgrade; upgraded: it succeeds
WS_Upgrade(upgraded) ==
    /\ pc = "upgrade"
    /\ pc' = IF upgraded THEN "handshake" ELSE "returned"
    /\ UNCHANGED <<sessionVars, http>>

\* the HTTP server hands the next request to handleClientHandler
NextRequest(req) ==
    /\ pc = "http"
    /\ http.answer # "none"
    /\ req.proxy = http.proxy
    /\ http' = req
    /\ UNCHANGED <<pc, sessionVars>>

----------------------------------------------------------------------------
(* Specification *)

ServerStep ==
    \/ \E n \in LoginNames, p \in Passwords, lost \in BOOLEAN : Run_Handshake(n, p, lost)
    \/ RWS_PullUser
    \/ RWS_ReceiveRequest
    \/ RWS_ReceiveTimeout
    \/ \E p \in Payloads : RWS_Verify(p)
    \/ \E started \in BOOLEAN : RWS_StartStub(started)
    \/ RWS_SendSuccess
    \/ RWS_ReplyResult
    \/ RWS_ReplyCancelled
    \/ RWS_Wait
    \/ RWS_Return
    \/ Run_Close
    \/ Run_CloseDone
    \/ \E id \in 1..MaxReqs : ReplyGoroutine(id)
    \/ HSR_Receive
    \/ HSR_ReplyResult
    \/ HSR_ReplyCancelled
    \/ HSR_CtxDone
    \/ HSC_Receive
    \/ HSC_CtxDone
    \/ \E id \in 1..MaxChans : HNC_Open(id)
    \/ \E n \in LoginNames, p \in Passwords, lost \in BOOLEAN : WS_Handshake(n, p, lost)
    \/ WS_PullUser
    \/ WS_ReceiveRequest
    \/ WS_Timeout
    \/ \E p \in Payloads : WS_Verify(p)
    \/ \E started \in BOOLEAN : WS_StartStub(started)
    \/ WS_SendSuccess
    \/ WS_Wait
    \/ WSR_Next
    \/ WSC_Next
    \/ WSC_Handle
    \/ \E id \in 1..MaxChans, reached \in BOOLEAN : ChannelDial(id, reached)
    \/ \E i \in 1..MaxRoutes : StubStop(i)

EnvStep ==
    \/ Tick
    \/ \E t \in ReqTypes : PeerSend(t)
    \/ \E d \in ExtraData : PeerOpenChannel(d)
    \/ PeerClose
    \/ CtxCancel
    \/ \E id \in 1..MaxChans : ChannelEnd(id)

Next == ServerStep \/ EnvStep

Spec == Init /\ [][Next]_vars

\* The control plane: the session with a peer that opens no channel.
ControlServer ==
    \/ \E n \in LoginNames, p \in Passwords, lost \in BOOLEAN : Run_Handshake(n, p, lost)
    \/ RWS_PullUser
    \/ RWS_ReceiveRequest
    \/ RWS_ReceiveTimeout
    \/ \E p \in Payloads : RWS_Verify(p)
    \/ \E started \in BOOLEAN : RWS_StartStub(started)
    \/ RWS_SendSuccess
    \/ RWS_ReplyResult
    \/ RWS_ReplyCancelled
    \/ RWS_Wait
    \/ RWS_Return
    \/ Run_Close
    \/ Run_CloseDone
    \/ \E id \in 1..MaxReqs : ReplyGoroutine(id)
    \/ HSR_Receive
    \/ HSR_ReplyResult
    \/ HSR_ReplyCancelled
    \/ HSR_CtxDone
    \/ HSC_Receive
    \/ HSC_CtxDone
    \/ \E n \in LoginNames, p \in Passwords, lost \in BOOLEAN : WS_Handshake(n, p, lost)
    \/ WS_PullUser
    \/ WS_ReceiveRequest
    \/ WS_Timeout
    \/ \E p \in Payloads : WS_Verify(p)
    \/ \E started \in BOOLEAN : WS_StartStub(started)
    \/ WS_SendSuccess
    \/ WS_Wait
    \/ WSR_Next
    \/ WSC_Next
    \/ \E i \in 1..MaxRoutes : StubStop(i)

ControlEnv ==
    \/ Tick
    \/ \E t \in ReqTypes : PeerSend(t)
    \/ PeerClose
    \/ CtxCancel

ControlNext == ControlServer \/ ControlEnv

ControlInit == Init /\ ~socksOk

SpecControl == ControlInit /\ [][ControlNext]_vars

\* A goroutine of the server that can take a step is eventually scheduled;
\* nothing is assumed of the peer, the clock or the owner of the context.
SpecControlFair == SpecControl /\ WF_vars(ControlServer)

\* The data plane: the session with a peer that sends its config request and
\* then opens channels.
PeerSendConfig ==
    /\ Len(reqType) = 0
    /\ PeerSend("config")

ChannelsServer ==
    \/ \E n \in LoginNames, p \in Passwords, lost \in BOOLEAN : Run_Handshake(n, p, lost)
    \/ RWS_PullUser
    \/ RWS_ReceiveRequest
    \/ RWS_ReceiveTimeout
    \/ \E p \in Payloads : RWS_Verify(p)
    \/ \E started \in BOOLEAN : RWS_StartStub(started)
    \/ RWS_SendSuccess
    \/ RWS_ReplyResult
    \/ RWS_ReplyCancelled
    \/ RWS_Wait
    \/ RWS_Return
    \/ Run_Close
    \/ Run_CloseDone
    \/ \E id \in 1..MaxReqs : ReplyGoroutine(id)
    \/ HSR_Receive
    \/ HSR_CtxDone
    \/ HSC_Receive
    \/ HSC_CtxDone
    \/ \E id \in 1..MaxChans : HNC_Open(id)
    \/ \E n \in LoginNames, p \in Passwords, lost \in BOOLEAN : WS_Handshake(n, p, lost)
    \/ WS_PullUser
    \/ WS_ReceiveRequest
    \/ WS_Timeout
    \/ \E p \in Payloads : WS_Verify(p)
    \/ \E started \in BOOLEAN : WS_StartStub(started)
    \/ WS_SendSuccess
    \/ WS_Wait
    \/ WSR_Next
    \/ WSC_Next
    \/ WSC_Handle
    \/ \E id \in 1..MaxChans, reached \in BOOLEAN : ChannelDial(id, reached)
    \/ \E i \in 1..MaxRoutes : StubStop(i)

ChannelsEnv ==
    \/ Tick
    \/ PeerSendConfig
    \/ \E d \in ExtraData : PeerOpenChannel(d)
    \/ PeerClose
    \/ CtxCancel
    \/ \E id \in 1..MaxChans : ChannelEnd(id)

ChannelsNext == ChannelsServer \/ ChannelsEnv

SpecChannels == Init /\ [][ChannelsNext]_vars

\* The serve phase of a server without users: a peer that sends a config
\* request without routes on time and then opens channels; the context is
\* not cancelled.

ServeServer ==
    \/ \E n \in LoginNames, p \in Passwords, lost \in BOOLEAN : Run_Handshake(n, p, lost)
    \/ RWS_PullUser
    \/ RWS_ReceiveRequest
    \/ RWS_Verify(EmptyPayload)
    \/ RWS_SendSuccess
    \/ RWS_ReplyResult
    \/ RWS_Wait
    \/ RWS_Return
    \/ Run_Close
    \/ Run_CloseDone
    \/ \E id \in 1..MaxReqs : ReplyGoroutine(id)
    \/ HSR_Receive
    \/ HSC_Receive
    \/ \E id \in 1..MaxChans : HNC_Open(id)
    \/ \E n \in LoginNames, p \in Passwords, lost \in BOOLEAN : WS_Handshake(n, p, lost)
    \/ WS_PullUser
    \/ WS_ReceiveRequest
    \/ WS_Verify(EmptyPayload)
    \/ WS_SendSuccess
    \/ WS_Wait
    \/ WSR_Next
    \/ WSC_Next
    \/ WSC_Handle
    \/ \E id \in 1..MaxChans, reached \in BOOLEAN : ChannelDial(id, reached)

ServeEnv ==
    \/ PeerSendConfig
    \/ \E d \in ExtraData : PeerOpenChannel(d)
    \/ PeerClose
    \/ \E id \in 1..MaxChans : ChannelEnd(id)

ServeNext == ServeServer \/ ServeEnv

ServeInit == Init /\ ~reverseOk /\ users = {}

SpecServe == ServeInit /\ [][ServeNext]_vars

\* The serve phase with pings: the same peer also sends pings once it has
\* sent its config request.
PeerSendPing ==
    /\ Len(reqType) >= 1
    /\ PeerSend("ping")

ServePingNext ==
    \/ ServeServer
    \/ HSR_ReplyResult
    \/ ServeEnv
    \/ PeerSendPing

SpecServePing == ServeInit /\ [][ServePingNext]_vars

\* Authentication: the same peer and server, with users, while the embedding
\* program adds and removes users.
AuthInit == Init /\ ~reverseOk /\ ~socksOk

AuthNext ==
    \/ ServeServer
    \/ PeerSendConfig
    \/ PeerOpenChannel(Epd("skeleton", "tcp", "9001"))
    \/ PeerClose
    \/ \E id \in 1..MaxChans : ChannelEnd(id)
    \/ \E name \in UserNames : AddUser(name)
    \/ \E name \in UserNames : DeleteUser(name)

SpecAuth == AuthInit /\ [][AuthNext]_vars

\* The control plane while the embedding program adds and removes users.
AuthControlNext ==
    \/ ControlNext
    \/ \E name \in UserNames : AddUser(name)
    \/ \E name \in UserNames : DeleteUser(name)

SpecAuthControl == ControlInit /\ [][AuthControlNext]_vars

\* The control plane while external connections reach the reverse stubs.
ReverseNext ==
    \/ ControlNext
    \/ \E i \in 1..MaxRoutes : StubAccept(i)

ReverseInit == ControlInit /\ reverseOk

SpecReverse == ReverseInit /\ [][ReverseNext]_vars

\* The HTTP front end of the server in src/server: requests arrive one after
\* another until one is upgraded.
HttpInit ==
    /\ impl = "websocket"
    /\ reverseOk \in BOOLEAN
    /\ socksOk \in BOOLEAN
    /\ users \in {{}, UserNames}
    /\ sessions = <<>>
    /\ ctxCancelled = "no"
    /\ subCtxCancelled = FALSE
    /\ connClosed = FALSE
    /\ doneClosed = 0
    /\ clock = 0
    /\ pc = "http"
    /\ user = Nil
    /\ reqType = <<>>
    /\ qHead = 0
    /\ r = NoReq
    /\ payload = EmptyPayload
    /\ routes = <<>>
    /\ idx = 0
    /\ stubs = <<>>
    /\ cfgErr = ""
    /\ reply = [i \in {} |-> NoReply]
    /\ wire = <<>>
    /\ hreq = "off"
    /\ hcur = NoReq
    /\ hch = "off"
    /\ chData = <<>>
    /\ chHead = 0
    /\ chan = <<>>
    /\ http \in Requests
    /\ stubOpens = {}

HttpNext ==
    \/ HandleClientHandler
    \/ \E upgraded \in BOOLEAN : WS_Upgrade(upgraded)
    \/ \E req \in Requests : NextRequest(req)

SpecHttp == HttpInit /\ [][HttpNext]_vars

----------------------------------------------------------------------------
(* Properties *)

\* the two handlers of the serve phase have been started
Served == hreq # "off"

\* the config step has read the request it received
ConfigRead == r # NoReq /\ pc \notin {"awaitConfig", "verify"}

\* replies to request id that were written to the transport
WireCount(id) == Cardinality({i \in DOMAIN wire : wire[i].id = id})

SuccessWritten(id) == \E i \in DOMAIN wire : wire[i].id = id /\ wire[i].ok

\* a failure reply to the config request has been issued
ConfigFailureIssued == r \in DOMAIN reply /\ ~reply[r].ok /\ reply[r].msg # ""

\* Run / handleWebsocket is tearing the session down, or has
TearingDown == pc \in {"failWait", "return", "closing", "closeDone", "returned"}

\* the server accepted the channel open id
Accepted(id) ==
    id \in DOMAIN chan /\ chan[id] \in {"accepted", "serving", "dialFailed", "closed"}

\* the textual form of the forward route a TCP skeleton endpoint belongs to
RouteOf(epd) == ChdString([Reverse |-> FALSE, Path |-> epd.Path])

(* C1: on a session authenticated as a configured user, the server accepts *)
(* no channel open whose endpoint belongs to a route that none of the      *)
(* user's allow-regexes match.                                             *)
C1_NoChannelOnDeniedRoute ==
    \A id \in DOMAIN chan :
        (user # Nil /\ Accepted(id) /\ chData[id].Type = "tcp") =>
            HasAccess(user, RouteOf(chData[id]))

\* what holds once 10 seconds have passed without a control request
TimeoutFailsConfig ==
    clock >= ConfigTimeout =>
        /\ r = NoReq
        /\ pc \in {"awaitConfig", "return", "closing", "closeDone", "returned"}
        /\ stubs = <<>>
        /\ DOMAIN reply = {}
        /\ wire = <<>>
        /\ ~Served
        /\ hch = "off"
        /\ pc \in {"closeDone", "returned"} => connClosed

(* C2: when 10 seconds pass after the handshake without a control request, *)
(* the config step fails and the session is torn down: no request is taken *)
(* any more, no reverse stub is started, no reply is sent, the serve phase *)
(* is never entered, and Run / handleWebsocket eventually returns with the *)
(* SSH connection closed.                                                  *)
C2_TimeoutTearsDown ==
    /\ []TimeoutFailsConfig
    /\ (clock >= ConfigTimeout) ~> (pc = "returned" /\ connClosed)

C2_Witness ==
    /\ clock >= ConfigTimeout
    /\ cfgErr = "timeout"
    /\ pc = "returned"
    /\ connClosed

\* the request the config step took is not a well-formed config request
Malformed == ConfigRead /\ (reqType[r] # "config" \/ UnmarshalFails(payload))

(* C3: when the first control request is not of type "config", or its      *)
(* payload does not decode, the server replies to it with failure and      *)
(* tears the session down: no reverse stub is started, the serve phase is  *)
(* not entered, and when Run / handleWebsocket has returned the SSH        *)
(* connection is closed.                                                   *)
C3_MalformedTearsDown ==
    Malformed =>
        /\ ConfigFailureIssued
        /\ ~SuccessWritten(r)
        /\ stubs = <<>>
        /\ ~Served
        /\ TearingDown
        /\ pc \in {"closeDone", "returned"} => connClosed

\* the config the config step decoded has a reverse route, and reverse
\* tunnelling is disabled
ReverseRefused ==
    /\ ConfigRead
    /\ reqType[r] = "config"
    /\ ~UnmarshalFails(payload)
    /\ ~reverseOk
    /\ \E i \in DOMAIN routes : routes[i].Reverse

(* C4: with reverse tunnelling disabled, a config with a reverse route at  *)
(* any position is answered with the failure "Reverse port forwarding not  *)
(* enabled on server", the session is torn down (the connection is closed  *)
(* when Run / handleWebsocket has returned) and no reverse stub is bound.  *)
C4_ReverseRefused ==
    ReverseRefused =>
        /\ ConfigFailureIssued
        /\ reply[r].msg = "Reverse port forwarding not enabled on server"
        /\ ~SuccessWritten(r)
        /\ stubs = <<>>
        /\ ~Served
        /\ TearingDown
        /\ pc \in {"closeDone", "returned"} => connClosed

\* the config the config step decoded has a route the session's user has no
\* access to
HasDeniedRoute ==
    /\ ConfigRead
    /\ reqType[r] = "config"
    /\ ~UnmarshalFails(payload)
    /\ user # Nil
    /\ \E i \in DOMAIN routes : ~HasAccess(user, ChdString(routes[i]))

\* msg is an "Access to ... denied" failure naming the route s
IsAccessDenied(msg, s) ==
    msg \in {"Access to \"" \o s \o "\" denied", "access to '" \o s \o "' denied"}

IsReverseNotEnabled(msg) ==
    msg \in {"Reverse port forwarding not enabled on server",
             "Reverse port forwaring not enabled on server"}

(* C5 as stated: when a user is associated with the session and the config *)
(* has a route matching none of the user's allow-regexes, the config       *)
(* request is answered with a failure "Access to ... denied" and no        *)
(* reverse stub is started for any route.                                  *)
C5_DeniedAnswersAccessDenied ==
    HasDeniedRoute =>
        /\ ConfigFailureIssued
        /\ \E i \in DOMAIN routes : IsAccessDenied(reply[r].msg, ChdString(routes[i]))
        /\ stubs = <<>>

(* C5: when a user is associated with the session and the config has a     *)
(* route matching none of the user's allow-regexes, the config request is  *)
(* answered with a failure and no reverse stub is started for any route;   *)
(* the failure is "Access to ... denied" for the first such route, unless  *)
(* the config has a reverse route while reverse tunnelling is disabled:    *)
(* that is checked first and the failure is the reverse-not-enabled one.   *)
C5_DeniedFailsConfig ==
    HasDeniedRoute =>
        /\ ConfigFailureIssued
        /\ ~SuccessWritten(r)
        /\ stubs = <<>>
        /\ ~Served
        /\ IF ReverseRefused
           THEN IsReverseNotEnabled(reply[r].msg)
           ELSE LET d == CHOOSE i \in DOMAIN routes :
                           /\ ~HasAccess(user, ChdString(routes[i]))
                           /\ \A j \in 1..(i - 1) : HasAccess(user, ChdString(routes[j]))
                IN IsAccessDenied(reply[r].msg, ChdString(routes[d]))

\* an allowed reverse route precedes the denied one, and the failure names
\* the denied one
C5_Witness ==
    /\ HasDeniedRoute
    /\ reverseOk
    /\ Len(routes) = 2
    /\ routes[1].Reverse
    /\ HasAccess(user, ChdString(routes[1]))
    /\ IsAccessDenied(reply[r].msg, ChdString(routes[2]))
    /\ 1 \in DOMAIN wire
    /\ pc = "returned"

\* the config step failed because a reverse stub listener did not start
IsStubStartError(e) ==
    e \in {"listen failed"}
          \cup {"Unable to start stub listener " \o ChdString(c) : c \in ChannelDescriptors}

(* C6: when the stub listener of a reverse route fails to start, the       *)
(* config request is answered with failure, no success reply is sent, the  *)
(* session is torn down (the connection is closed when Run /               *)
(* handleWebsocket has returned), and the context of every stub started    *)
(* before it is cancelled by then.                                         *)
C6_StubFailureTearsDown ==
    IsStubStartError(cfgErr) =>
        /\ ConfigFailureIssued
        /\ ~SuccessWritten(r)
        /\ ~Served
        /\ TearingDown
        /\ pc \in {"closing", "closeDone", "returned"} => subCtxCancelled
        /\ pc \in {"closeDone", "returned"} => connClosed

\* the session is gone: Run has returned, the connection is closed, every
\* stub is stopped
TornDown ==
    /\ pc = "returned"
    /\ connClosed
    /\ \A i \in DOMAIN stubs : stubs[i] = "stopped"

(* C7: after the session's context is cancelled in the serve phase the     *)
(* server tears the session down by itself: Run eventually returns with    *)
(* the connection closed and the stubs stopped, whether or not the peer    *)
(* closes the connection.                                                  *)
C7_CancelTearsDown ==
    (ctxCancelled = "serve") ~> TornDown

(* C8: in the serve phase every control request taken from the stream is   *)
(* replied to exactly once (never twice; once, when the reply could be     *)
(* written), with success if and only if its type is "ping", and with a    *)
(* failure naming the unknown type otherwise.                              *)
C8_RepliesByType ==
    /\ Served => \A id \in 1..qHead : id # r => id \in DOMAIN reply
    /\ \A id \in DOMAIN reply \ {r} :
        /\ reply[id].ok = (reqType[id] = "ping")
        /\ ~reply[id].ok =>
              reply[id].msg \in {"Unknown SSH request type: " \o reqType[id],
                                 "Unknown request type: " \o reqType[id]}
        /\ WireCount(id) <= 1
        /\ (reply[id].st \in {"result", "done"} /\ ~reply[id].err) => WireCount(id) = 1
        /\ \A i \in DOMAIN wire :
              wire[i].id = id => wire[i].ok = reply[id].ok /\ wire[i].msg = reply[id].msg

C8_Witness ==
    \E id \in DOMAIN reply \ {r} :
        /\ reqType[id] = "ping"
        /\ reply[id].st = "done"
        /\ \E i \in DOMAIN wire : wire[i].id = id /\ wire[i].ok
        /\ ~connClosed

(* C9: while the session is up the control-request handler keeps taking    *)
(* requests: it has not stopped while the SSH connection is still open.    *)
C9_HandlerRunsWhileOpen ==
    hreq = "returned" => connClosed

(* C10: a "config" request taken after the first one was acknowledged is   *)
(* answered with failure, and taking it changes neither the routes nor     *)
(* the reverse stub listeners of the session.                              *)
C10_ConfigHonouredOnce ==
    [][(Served /\ qHead' = qHead + 1 /\ reqType[qHead'] = "config") =>
          /\ qHead' \in DOMAIN reply'
          /\ ~reply'[qHead'].ok
          /\ stubs' = stubs
          /\ routes' = routes
          /\ payload' = payload
          /\ user' = user]_vars

C10_Witness ==
    \E id \in DOMAIN reply \ {r} :
        /\ Served
        /\ reqType[id] = "config"
        /\ \E i \in DOMAIN wire : wire[i].id = id /\ ~wire[i].ok
        /\ \E i \in DOMAIN wire : wire[i].id = r /\ wire[i].ok
        /\ \E i \in DOMAIN stubs : stubs[i] = "listening"

\* a success reply to the config request has been issued
SuccessIssued == r # NoReq /\ r \in DOMAIN reply /\ reply[r].ok

\* the config request passes every check and the stub listener of every
\* reverse route was started (stubs holds the started ones)
ConfigAccepted ==
    /\ reqType[r] = "config"
    /\ ~UnmarshalFails(payload)
    /\ routes = payload.ChannelDescriptors
    /\ \A i \in DOMAIN routes :
          /\ routes[i].Reverse => reverseOk
          /\ user # Nil => HasAccess(user, ChdString(routes[i]))
          /\ routes[i].Reverse => i \in DOMAIN stubs

\* the step that issues the success reply is taken with the config accepted
SuccessAfterChecks == [][(~SuccessIssued /\ SuccessIssued') => ConfigAccepted]_vars

(* C11: the success reply to the config request is issued only after every *)
(* route passed the reverse-enabled and user-access checks and every       *)
(* reverse stub listener started; and the handlers of pings and channel    *)
(* opens run only after that reply was written to the connection without   *)
(* error.                                                                  *)
C11_SuccessThenServe ==
    /\ SuccessAfterChecks
    /\ [](Served => SuccessWritten(r))

(* C12: a channel open is accepted only after the local target of its      *)
(* skeleton endpoint was dialed successfully: no channel the peer was told *)
(* is accepted is waiting for its local dial, or has seen it fail.         *)
C12_DialBeforeAccept ==
    \A id \in DOMAIN chan : chan[id] \notin {"accepted", "dialFailed"}

\* the channel open id ended in an error of its own, or its copy ended
ChannelFailed(id) ==
    /\ id \in DOMAIN chan
    /\ chan[id] \in {"rejUnknown", "rejProhibited", "acceptErr", "dialFailed", "closed"}

\* the two handlers of the serve phase are running
HandlersRunning == hreq = "loop" /\ hch \in {"loop", "busy"}

(* C13: an error confined to one channel (undecodable extra data,          *)
(* prohibited or disabled endpoint, failed accept, failed local dial, end  *)
(* of its copy) does not terminate the session: the step in which the      *)
(* channel fails leaves the SSH connection, the position of Run, the       *)
(* session's context and every other channel as they were, and the two     *)
(* handlers running if they were.                                          *)
C13_ChannelErrorsAreLocal ==
    [][\A id \in 1..MaxChans :
          (~ChannelFailed(id) /\ ChannelFailed(id)') =>
              /\ connClosed' = connClosed
              /\ pc' = pc
              /\ subCtxCancelled' = subCtxCancelled
              /\ HandlersRunning => HandlersRunning'
              /\ \A o \in DOMAIN chan : o # id => chan'[o] = chan[o]]_vars

\* one channel failed its local dial, another is being served, the session
\* is up
C13_Witness ==
    /\ \E id, o \in DOMAIN chan : chan[id] = "dialFailed" /\ chan[o] = "serving"
    /\ ~connClosed
    /\ pc = "wait"
    /\ HandlersRunning

\* the channel open id asks for a Socks endpoint
IsSocksOpen(id) == chData[id].ok /\ chData[id].Type = "socks"

(* C14: with SOCKS5 disabled, a channel open with a Socks skeleton         *)
(* descriptor is never accepted: once handled it is rejected; and the      *)
(* rejection leaves the session able to accept a later non-Socks open.     *)
C14_SocksDisabledRejects ==
    ~socksOk =>
        \A id \in DOMAIN chan :
            IsSocksOpen(id) => chan[id] \in {"handling", "rejProhibited"}

\* the first open, Socks, was rejected and the second, TCP, was then
\* accepted on the same session
C14_Witness ==
    /\ ~socksOk
    /\ Len(chData) = 2
    /\ IsSocksOpen(1)
    /\ DOMAIN chan = {1, 2}
    /\ chan[1] = "rejProhibited"
    /\ chData[2] = Epd("skeleton", "tcp", "9001")
    /\ chan[2] = "serving"
    /\ ~connClosed
    /\ HandlersRunning

\* the server answered the channel open id with a rejection
Rejected(id) == id \in DOMAIN chan /\ chan[id] \in {"rejUnknown", "rejProhibited"}

\* the descriptor is one a server skeleton may be built from
PermittedSkeleton(epd) ==
    /\ epd.ok
    /\ epd.Role = "skeleton"
    /\ epd.Type # "stdio"
    /\ epd.Type = "socks" => socksOk

\* the answer to every handled channel open follows from its extra data
ChannelAnswerByDescriptor ==
    \A id \in DOMAIN chan :
        /\ Accepted(id) => PermittedSkeleton(chData[id])
        /\ chan[id] = "acceptErr" => PermittedSkeleton(chData[id])
        /\ chan[id] = "rejUnknown" => ~chData[id].ok
        /\ chan[id] = "rejProhibited" => (chData[id].ok /\ ~PermittedSkeleton(chData[id]))

\* an answer is final: a rejected channel open is never accepted and an
\* accepted one is never rejected
ChannelAnswerFinal ==
    [][\A id \in DOMAIN chan :
          /\ Rejected(id) => chan'[id] = chan[id]
          /\ Accepted(id) => Accepted(id)']_vars

EndpointOpen(id) == id \in DOMAIN chan /\ chan[id] \in {"accepted", "serving"}

\* some goroutine still works on the channel open id
ChannelGoroutineRuns(id) ==
    \/ ENABLED HNC_Open(id)
    \/ ENABLED ChannelDial(id, TRUE)
    \/ ENABLED ChannelEnd(id)
    \/ IsOld /\ hch = "busy" /\ chHead = id

\* a rejected channel open holds nothing
RejectedHoldsNothing ==
    \A id \in DOMAIN chan :
        Rejected(id) => (~EndpointOpen(id) /\ ~ChannelGoroutineRuns(id))

\* a rejection is sent before any endpoint is built or target dialed
RejectedBeforeDial ==
    [][\A id \in 1..MaxChans :
          (~Rejected(id) /\ Rejected(id)') => chan[id] = "handling"]_vars

(* C16: when the server rejects a channel open it has dialed no local      *)
(* target for it (the rejection comes straight from the checks, before     *)
(* any endpoint is built), it holds no open endpoint for it, and no        *)
(* goroutine servicing it runs after the rejection.                        *)
C16_RejectLeavesNothing ==
    /\ []RejectedHoldsNothing
    /\ RejectedBeforeDial

\* a Stdio open was rejected and the session is up, the loop free again
C16_Witness ==
    /\ \E id \in DOMAIN chan : chan[id] = "rejProhibited" /\ chData[id].Type = "stdio"
    /\ ~connClosed
    /\ HandlersRunning
    /\ hch = "loop"

\* a channel open is in the hands of the server: waiting in ch.Accept() or
\* in its local dial
ChannelBlocked == \E id \in DOMAIN chan : chan[id] \in {"handling", "accepted"}

\* the channel-open handler can take the next channel open
ChannelHandlerFree == ENABLED HSC_Receive \/ ENABLED WSC_Next

\* the control-request handler can take a step
RequestHandlerFree ==
    \/ ENABLED HSR_Receive
    \/ ENABLED HSR_ReplyResult
    \/ hcur # NoReq /\ ENABLED ReplyGoroutine(hcur)
    \/ ENABLED WSR_Next

(* C17: the handlers of a session progress independently and each channel  *)
(* open is serviced on its own goroutine: while one channel open is        *)
(* blocked in accept or in its local dial, a further channel open waiting  *)
(* in the stream can be taken and a ping waiting in the stream can be      *)
(* answered.                                                               *)
C17_HandlersIndependent ==
    (ChannelBlocked /\ pc = "wait" /\ ~connClosed) =>
        /\ chHead < Len(chData) => ChannelHandlerFree
        /\ qHead < Len(reqType) => RequestHandlerFree

----------------------------------------------------------------------------
(* The user-session map *)

\* Run / handleWebsocket has returned: the session ended or the handshake failed
SessionOver == pc = "returned"

(* C18: after a session has ended, and after a handshake that failed, the
   user-session map holds no entry for the session's SSH session ID, while
   users are added and removed. *)
C18_SessionMapCleared == SessionOver => SID \notin DOMAIN sessions

----------------------------------------------------------------------------
(* Password authentication *)

\* the presented username exists and the presented password is that user's
CredentialsValid(name, pass) == name \in users /\ UserRecs[name].Pass = pass

\* one handshake of either implementation with the presented credentials
Handshake(name, pass, lost) ==
    Run_Handshake(name, pass, lost) \/ WS_Handshake(name, pass, lost)

\* with users configured the handshake succeeds only on valid credentials
HandshakeChecksPassword ==
    [][\A n \in LoginNames, p \in Passwords, lost \in BOOLEAN :
          (Handshake(n, p, lost) /\ users # {} /\ pc' = "start")
              => CredentialsValid(n, p)]_vars

\* a failed authentication ends the connection before the config step, adds
\* no entry to the session map and starts no handler
AuthFailureEndsSession ==
    [][\A n \in LoginNames, p \in Passwords, lost \in BOOLEAN :
          (Handshake(n, p, lost) /\ users # {} /\ ~CredentialsValid(n, p))
              => /\ pc' = "returned"
                 /\ sessions' = sessions
                 /\ connClosed'
                 /\ r' = NoReq
                 /\ hch' = "off"
                 /\ chan' = << >>]_vars

\* a connection that returned without starting its handlers serves nothing later
NothingServedAfterFailure ==
    [][(pc = "returned" /\ hch = "off")
          => (pc' = "returned" /\ hch' = "off" /\ hreq' = hreq /\ chan' = chan /\ r' = r)]_vars

\* without users every login is accepted
NoUsersAcceptsAll ==
    (pc = "handshake" /\ users = {}) =>
        \A n \in LoginNames, p \in Passwords :
            ENABLED (Handshake(n, p, FALSE) /\ pc' = "start")

(* C19: with at least one user configured the handshake succeeds only if the
   presented username exists and the password equals that user's password;
   on authentication failure the session never reaches the config step, no
   entry is added to the user-session map and no channel open is served;
   with no users configured any credentials are accepted. *)
C19_PasswordAuth ==
    /\ HandshakeChecksPassword
    /\ AuthFailureEndsSession
    /\ NothingServedAfterFailure
    /\ []NoUsersAcceptsAll

\* a login was refused while users are configured: the connection is closed,
\* nothing was received and the session map is empty
C19_Witness ==
    /\ pc = "returned"
    /\ users # {}
    /\ connClosed
    /\ r = NoReq
    /\ cfgErr = ""
    /\ hch = "off"
    /\ SID \notin DOMAIN sessions

----------------------------------------------------------------------------
(* The HTTP upgrade *)

\* the request declares Upgrade: websocket (header values compare without case)
DeclaresWebsocket(req) == req.upgrade \in {<<"websocket">>, <<"WebSocket">>, <<"WEBSOCKET">>}

\* the request carries the chisel prefix with another version
OtherChiselVersion(req) ==
    HasPrefix(req.protocol, ChiselPrefix) /\ req.protocol # ProtocolVersion

\* the upgrade was started for the request / a session exists for it
UpgradeStarted == http.answer = "websocket"
SessionCreated == pc \notin {"http", "upgrade", "returned"}

\* the server takes the next request
ServerAlive == \E req \in Requests : ENABLED NextRequest(req)

(* C20: a session is created, and the WebSocket upgrade performed, only for
   a request that declares Upgrade: websocket and whose Sec-WebSocket-Protocol
   equals the expected protocol version exactly; a request with the chisel
   prefix and another version is never upgraded and never aborts the server:
   it is answered as any other request and the server takes the next one. *)
C20_UpgradeOnlyExactVersion ==
    /\ (UpgradeStarted \/ SessionCreated) =>
           (DeclaresWebsocket(http) /\ http.protocol = ProtocolVersion)
    /\ SessionCreated => UpgradeStarted
    /\ (OtherChiselVersion(http) /\ http.answer # "none") =>
           /\ http.answer \in {"proxy", "health", "version", "404"}
           /\ pc = "http"
           /\ ServerAlive

\* an upgrade request with the chisel prefix and an old version was answered 404
C20_Witness ==
    /\ DeclaresWebsocket(http)
    /\ http.protocol = <<"xevo", "-", "chisel", "-", "v2">>
    /\ ~http.proxy
    /\ http.answer = "404"

----------------------------------------------------------------------------
(* Requests that are not upgraded *)

\* an upgrade request with the chisel prefix and another version
MismatchedUpgrade(req) == DeclaresWebsocket(req) /\ OtherChiselVersion(req)

\* the request was served by handleClientHandler itself or by the proxy
ServedNotUpgraded == http.answer \notin {"none", "websocket"}

(* C21 as stated: without a reverse proxy an upgrade request with a
   mismatched protocol version is answered with 404, one info-level log line
   is written and no session is created. *)
C21_MismatchAnswered404 ==
    (MismatchedUpgrade(http) /\ ~http.proxy /\ http.answer # "none") =>
        /\ Response(http) = [status |-> 404, body |-> "Not found"]
        /\ http.infos = 1
        /\ pc = "http"

(* C21: without a reverse proxy an upgrade request with a mismatched protocol
   version writes one info-level log line, creates no session and is then
   answered like a request without upgrade: "OK\n" for /health, the build
   version for /version and 404 for every other URL. *)
C21_MismatchFallsThrough ==
    (MismatchedUpgrade(http) /\ ~http.proxy /\ http.answer # "none") =>
        /\ http.infos = 1
        /\ pc = "http"
        /\ http.answer # "websocket"
        /\ http.url = "/health" => Response(http) = [status |-> 200, body |-> "OK\n"]
        /\ http.url = "/version" => Response(http) = [status |-> 200, body |-> BuildVersion]
        /\ http.url \notin {"/health", "/version"} =>
               Response(http) = [status |-> 404, body |-> "Not found"]

\* a mismatched upgrade request to /health was logged and answered "OK\n"
C21_Witness ==
    /\ MismatchedUpgrade(http)
    /\ ~http.proxy
    /\ http.url = "/health"
    /\ http.answer = "health"
    /\ http.infos = 1

(* C22 as stated: every non-upgraded request to /health is answered 200 with
   body "OK\n", with or without a reverse proxy. *)
C22_HealthAlwaysOK ==
    (http.url = "/health" /\ ServedNotUpgraded) =>
        Response(http) = [status |-> 200, body |-> "OK\n"]

(* C22: a non-upgraded request to /health is answered 200 with body "OK\n"
   when no reverse proxy is configured; with a reverse proxy it is forwarded
   and the answer is the proxy target's. *)
C22_HealthWithoutProxy ==
    (http.url = "/health" /\ ServedNotUpgraded) =>
        /\ ~http.proxy => /\ http.answer = "health"
                          /\ Response(http) = [status |-> 200, body |-> "OK\n"]
        /\ http.proxy => /\ http.answer = "proxy"
                         /\ Response(http) = http.backend

\* a request to /health went to the proxy target, which answered 502
C22_Witness ==
    /\ http.url = "/health"
    /\ http.proxy
    /\ http.answer = "proxy"
    /\ Response(http).status = 502

----------------------------------------------------------------------------
(* The goroutine of sendSSHReply *)

\* the goroutine that sends the reply to request id has not ended: it is in
\* r.Reply or blocked on result <- err
ReplyGoroutineRuns(id) == id \in DOMAIN reply /\ reply[id].st \in {"spawned", "result"}

\* Run has returned and the SSH connection is closed
SessionTornDown == pc = "returned" /\ connClosed

(* C24: the goroutine that sendSSHReply starts always ends: once the session
   has been torn down and the SSH connection is closed, no reply goroutine
   stays blocked for ever. *)
C24_ReplyGoroutineEnds ==
    SessionTornDown ~> (\A id \in DOMAIN reply : ~ReplyGoroutineRuns(id))

----------------------------------------------------------------------------
(* The request stream closed before the config request *)

\* the config step read r.Type of the nil request a closed stream delivers
NilRequestInspected == pc = "panic"

(* C25: when the SSH request stream is closed after the handshake and before
   any control request arrives, the config step ends with an error and the
   session is torn down; the server never inspects the type or payload of
   an absent (nil) request. *)
C25_NilRequestNotInspected == ~NilRequestInspected

----------------------------------------------------------------------------
(* Access checks of an authenticated session *)

\* the user the password callback authenticated the session as (Nil: none):
\* the one the config step pulled, or the one still held by the session map
AuthenticatedUser ==
    IF user # Nil THEN user
    ELSE IF SID \in DOMAIN sessions THEN sessions[SID]
    ELSE Nil

\* a reverse stub is started by the step
StubStarted == DOMAIN stubs' # DOMAIN stubs

(* C26: every session that authenticated as a configured user has each route
   of its config checked against that user's allow set before any stub is
   started or success is replied, while users are added and removed. *)
C26_RoutesCheckedForUser ==
    [][(/\ AuthenticatedUser # Nil
        /\ StubStarted \/ (~SuccessIssued /\ SuccessIssued'))
          => \A i \in DOMAIN routes : HasAccess(AuthenticatedUser, ChdString(routes[i]))]_vars

----------------------------------------------------------------------------
(* Replies to the config request *)

\* at most one reply to the request the config step received is written
ConfigReplyOnce == r # NoReq => WireCount(r) <= 1

\* once the success reply is written and sendSSHReply is over, the handlers
\* of the serve phase have been started
SuccessOnlyWhenServing == (r # NoReq /\ SuccessWritten(r) /\ pc # "okWait") => Served

(* C27: on every path through the config step that received a request the
   server sends at most one reply to it: a failure reply and the success
   reply exclude each other, and the success reply is sent only on the path
   that goes on to the serve phase. *)
C27_OneConfigReply == ConfigReplyOnce /\ SuccessOnlyWhenServing

----------------------------------------------------------------------------
(* The done channel of ProxySSHSession *)

\* Run is over: it returned, or it was unwound by a panic
RunOver == IsNew /\ pc \in {"returned", "panic"}

\* s.done is closed at most once, and once when Run is over
DoneClosedOnce == doneClosed <= 1 /\ (RunOver => doneClosed = 1)

\* s.done is closed only with the SSH connection closed
DoneAfterConnClosed == (IsNew /\ doneClosed >= 1) => connClosed

\* both handlers of the serve phase have ended, or were never started
HandlersEnded == hreq \in {"off", "returned"} /\ hch \in {"off", "returned"}

(* C28: on every path through Run the done channel of the session is closed
   exactly once, and only after the SSH connection has been closed when the
   handshake succeeded; after Run returns the control-request handler and
   the channel-open handler both eventually end. *)
C28_DoneClosedOnce ==
    /\ []DoneClosedOnce
    /\ []DoneAfterConnClosed
    /\ (IsNew /\ pc = "returned") ~> HandlersEnded

----------------------------------------------------------------------------
(* Channels opened by reverse stubs *)

\* a reverse stub opens a channel toward the client in this step
StubOpensChannel == stubOpens' # stubOpens

(* C29: the server opens no channel toward the client on behalf of a reverse
   stub before the config request has been acknowledged with success; a
   reverse stub started for a config that is failed afterwards never opens a
   channel on the SSH connection. *)
C29_NoStubChannelBeforeSuccess ==
    /\ [][StubOpensChannel => (r # NoReq /\ SuccessWritten(r))]_vars
    /\ [](ConfigFailureIssued => stubOpens = {})

============================================================================
